---------------------------- MODULE Spec2Model ----------------------------
(***************************************************************************)
(* Equilibrium pricing engine of Game-Theory-Project.                      *)
(*                                                                         *)
(* The state machine is the orchestration loop dynamicPricing              *)
(* (src/src/dynamicPricing.py): for every route of the feed it adds the    *)
(* edge, enumerates the routes (getAllPossibleRoutes), allocates the       *)
(* unknowns (addVarsForSolver), runs Strategy A (optimizeObjective), on    *)
(* failure Strategy B (setPricesHighToLow), extracts the model             *)
(* (getUpdatedGraphAndSolution) and reports (runExperiments); at the end   *)
(* it persists the network (writeGraphToJSON).                             *)
(*                                                                         *)
(* The solving oracle (z3's Optimize) is outside the repository: a check   *)
(* answers sat with some assignment satisfying the asserted constraints,   *)
(* unsat when none exists, or unknown (its time budget ran out).  Reals    *)
(* are searched on a finite grid; Python floats are exact rationals.       *)
(*                                                                         *)
(* The repository holds two definitions of the strategies: those of        *)
(* solverUtils.py, which dynamicPricing.py imports, and those of           *)
(* solveStrategy.py.  strategyModule says which one a run is wired to.     *)
(***************************************************************************)
EXTENDS Integers, Sequences, FiniteSets, TLC

(***************************************************************************)
(* Program constants.                                                      *)
(***************************************************************************)
P_MIN == 5
P_MAX == 120
P_DELTA == 5
TOLERANCE_FLOW == 1
TOLERANCE_COST == 5
MAX_ROUTES_PER_DEMAND == 8
max_hops == 3
\* key of the synthetic edge, f"auto_{s}_{t}": at most one per node pair, as
\* the edge is added only when the pair is not connected
default_key == -1

(***************************************************************************)
(* Bounds of the model.                                                    *)
(***************************************************************************)
\* longest route feed
MaxFeed == 2

(***************************************************************************)
(* Values.  A Python or z3 value held in an attribute is [t, n, d]:        *)
(*   absent  the key is not in the dict                                    *)
(*   none    Python None                                                   *)
(*   num     a Python number n/d (int or float)                            *)
(*   var     a z3 unknown (is_expr), named after the edge or the route     *)
(*   z3num   a z3 numeral n/d, as model.evaluate returns it (is_expr)      *)
(***************************************************************************)
Absent == [t |-> "absent", n |-> 0, d |-> 1]
None == [t |-> "none", n |-> 0, d |-> 1]
Num(x) == [t |-> "num", n |-> x, d |-> 1]
Var == [t |-> "var", n |-> 0, d |-> 1]

is_expr(x) == x.t \in {"var", "z3num"}

RECURSIVE GCD(_, _)
GCD(a, b) == IF b = 0 THEN a ELSE GCD(b, a % b)

Abs(x) == IF x < 0 THEN -x ELSE x

\* the rational n/d in lowest terms, d > 0
Rat(n, d) ==
  LET g == GCD(Abs(n), d)
  IN  [t |-> "num", n |-> n \div g, d |-> d \div g]

RAdd(a, b) == Rat(a.n * b.d + b.n * a.d, a.d * b.d)
RLe(a, b) == a.n * b.d <= b.n * a.d
REq(a, b) == a.n * b.d = b.n * a.d

RECURSIVE RSum(_)
RSum(s) == IF s = <<>> THEN Num(0) ELSE RAdd(Head(s), RSum(Tail(s)))

RECURSIVE Concat(_)
Concat(ss) == IF ss = <<>> THEN <<>> ELSE Head(ss) \o Concat(Tail(ss))

Range(s) == {s[i] : i \in 1..Len(s)}

SeqsUpTo(S, n) == UNION {[1..m -> S] : m \in 1..n}

(***************************************************************************)
(* Inputs: the network and the demands parseGraph returns and the routes   *)
(* parseRoutes returns.  Nodes are numbered in the order add_nodes_from    *)
(* inserts them.                                                           *)
(***************************************************************************)
EdgeData(color, capacity, price, k) ==
  [color |-> color, capacity |-> capacity, price |-> price, k |-> k]

EdgeInput(v1, v2, data) == [v1 |-> v1, v2 |-> v2, data |-> data]

Demand(s, t, d) == [s |-> s, t |-> t, d |-> d]

Input(edges, dems) == [edges |-> edges, demands |-> dems]

\* the input files: the edges of the networks and the demand list
Inputs ==
  LET red == EdgeInput(1, 2, EdgeData("red", Num(1), None, Num(1)))
      Bus == EdgeInput(1, 2, EdgeData("Bus", Absent, Num(100), Num(1)))
  IN  { Input(<<red>>, <<Demand(1, 2, 2)>>),
        Input(<<red>>, <<Demand(2, 1, 2)>>),
        Input(<<red>>, <<Demand(1, 3, 2)>>),
        Input(<<red>>, <<Demand(1, 4, 2)>>),
        Input(<<red, Bus>>, <<Demand(1, 2, 2)>>),
        Input(<<Bus>>, <<Demand(1, 2, 600)>>),
        Input(<<EdgeInput(1, 2, EdgeData("red", Num(200), Num(5), Num(1))),
                EdgeInput(1, 2, EdgeData("Bus", Num(200), Num(5), Num(1)))>>,
              <<Demand(1, 2, 2)>>) }

\* the route feed draws from these
RouteInputs ==
  { EdgeInput(2, 3, EdgeData("Bus", Num(200), None, Num(1))),
    EdgeInput(1, 3, EdgeData("Bus", Num(200), Num(5), Num(2))) }

StrategyModules == {"solverUtils", "solveStrategy"}

(***************************************************************************)
(* The network: the edges of the MultiGraph in insertion order.  An edge   *)
(* is [u, v, key, color, capacity, price, k, f_e] with u before v in node  *)
(* order, which is how graph.edges(keys=True, data=True) reports it.       *)
(***************************************************************************)
Min(a, b) == IF a <= b THEN a ELSE b
Max(a, b) == IF a >= b THEN a ELSE b

Between(g, a, b) ==
  SelectSeq(g, LAMBDA e : e.u = Min(a, b) /\ e.v = Max(a, b))

\* MultiGraph.new_edge_key: the number of edges between the pair, raised
\* until it is a key not in use
RECURSIVE new_edge_key(_, _, _, _)
new_edge_key(g, a, b, key) ==
  IF \E i \in 1..Len(g) :
       g[i].u = Min(a, b) /\ g[i].v = Max(a, b) /\ g[i].key = key
  THEN new_edge_key(g, a, b, key + 1)
  ELSE key

MkEdge(a, b, key, data) ==
  [u |-> Min(a, b), v |-> Max(a, b), key |-> key,
   color |-> data.color, capacity |-> data.capacity,
   price |-> data.price, k |-> data.k, f_e |-> Absent]

\* graph.add_edge(u, v, **attr)
add_edge(g, a, b, data) ==
  Append(g, MkEdge(a, b, new_edge_key(g, a, b, Len(Between(g, a, b))), data))

RECURSIVE add_edges_from(_, _)
add_edges_from(g, edges) ==
  IF edges = <<>> THEN g
  ELSE add_edges_from(add_edge(g, Head(edges).v1, Head(edges).v2,
                               Head(edges).data),
                      Tail(edges))

\* parseGraph: the MultiGraph of the input's edges (every edge has its k)
parseGraph(edges) == add_edges_from(<<>>, edges)

\* a parser that takes k from the table whatever the entry holds
with_k_always(name, data, k) ==
  IF name = "Metro" THEN [data EXCEPT !.k = Num(k.Metro[data.color])]
  ELSE IF name = "Bus" THEN [data EXCEPT !.k = Num(k.Bus)]
  ELSE data

\* parseGraph lines 26-30: the data of an edge entry of the network called
\* name, with k from the table k of the file when the entry has none
with_k(name, data, k) ==
  IF data.k.t # "absent" THEN data
  ELSE IF name = "Metro" THEN [data EXCEPT !.k = Num(k.Metro[data.color])]
  ELSE IF name = "Bus" THEN [data EXCEPT !.k = Num(k.Bus)]
  ELSE data

\* parseGraph lines 17-32: the list edges of the file data
edges_with_k(data) ==
  Concat([n \in 1..Len(data.networks) |->
    [x \in 1..Len(data.networks[n].edges) |->
       LET edge == data.networks[n].edges[x]
       IN  EdgeInput(edge.v1, edge.v2,
                     with_k(data.networks[n].name, edge.data, data.k))]])

\* position in g of the edge (a, b, key)
EdgeIndex(g, a, b, key) ==
  CHOOSE i \in 1..Len(g) :
    g[i].u = Min(a, b) /\ g[i].v = Max(a, b) /\ g[i].key = key

(***************************************************************************)
(* getAllPossibleRoutes.                                                   *)
(***************************************************************************)
Other(e, n) == IF e.u = n THEN e.v ELSE e.u

Touching(g, n) == SelectSeq(g, LAMBDA e : e.u = n \/ e.v = n)

\* the neighbours of n in the order of graph.adj[n]
RECURSIVE NbrOrder(_, _, _)
NbrOrder(es, n, seen) ==
  IF es = <<>> THEN <<>>
  ELSE LET m == Other(Head(es), n)
       IN  IF m \in seen THEN NbrOrder(Tail(es), n, seen)
           ELSE <<m>> \o NbrOrder(Tail(es), n, seen \cup {m})

\* graph.edges(keys=True, data=True): node by node in node order, for each
\* the neighbours not yet done in the order of graph.adj, for each the
\* parallel edges in key order
edges_view(g) ==
  LET nodes == {g[x].u : x \in 1..Len(g)} \cup {g[x].v : x \in 1..Len(g)}
      last == IF nodes = {} THEN 0
              ELSE CHOOSE n \in nodes : \A m \in nodes : m <= n
      at(n) == LET nb == NbrOrder(Touching(g, n), n, {})
               IN  Concat([i \in 1..Len(nb) |->
                             IF nb[i] > n THEN Between(g, n, nb[i]) ELSE <<>>])
  IN  Concat([n \in 1..last |-> at(n)])

\* graph[u][v].items() as route entries (u, v, key, data_dict): the data
\* dict is the network's own record of the edge (own = FALSE)
parallel_edges(g, a, b) ==
  LET es == Between(g, a, b)
  IN  [i \in 1..Len(es) |->
         [u |-> a, v |-> b, key |-> es[i].key, own |-> FALSE]]

\* graph.edges(n, keys=True)
EdgesAt(g, n) ==
  LET nb == NbrOrder(Touching(g, n), n, {})
  IN  Concat([i \in 1..Len(nb) |-> parallel_edges(g, n, nb[i])])

\* networkx all_simple_edge_paths on a multigraph: depth-first from node,
\* one path per choice of parallel edges, at most hops edges long
RECURSIVE edge_paths(_, _, _, _, _)
edge_paths(g, node, t, visited, hops) ==
  LET es == EdgesAt(g, node)
      Sub(ed) ==
        IF ed.v \in visited THEN <<>>
        ELSE IF ed.v = t THEN << <<ed>> >>
        ELSE IF hops > 1
        THEN LET rest == edge_paths(g, ed.v, t, visited \cup {ed.v}, hops - 1)
             IN  [i \in 1..Len(rest) |-> <<ed>> \o rest[i]]
        ELSE <<>>
  IN  Concat([i \in 1..Len(es) |-> Sub(es[i])])

\* nx.all_simple_paths(graph, s, t, cutoff): the node path of every edge
\* path, so a node path comes once per choice of parallel edges
all_simple_paths(g, s, t, cutoff) ==
  LET eps == edge_paths(g, s, t, {s}, cutoff)
  IN  [i \in 1..Len(eps) |->
         <<s>> \o [j \in 1..Len(eps[i]) |-> eps[i][j].v]]

\* itertools.product of the edge options of the hops, first hop slowest
RECURSIVE product(_)
product(lists) ==
  IF lists = <<>> THEN << <<>> >>
  ELSE LET rest == product(Tail(lists))
           first == Head(lists)
       IN  Concat([i \in 1..Len(first) |->
                     [j \in 1..Len(rest) |-> <<first[i]>> \o rest[j]]])

path_routes(g, path) ==
  product([i \in 1..(Len(path) - 1) |-> parallel_edges(g, path[i], path[i + 1])])

Take(s, n) == SubSeq(s, 1, Min(n, Len(s)))

\* a synthetic edge that costs nothing
default_attr_free == EdgeData("personal", Num(200), Num(0), Num(1))

default_attr == EdgeData("personal", Num(200), Num(100), Num(1))

\* an enumerator that adds no edge and returns no route when there is no path
demand_routes_no_default(g, demand) ==
  LET node_paths == all_simple_paths(g, demand.s, demand.t, max_hops)
  IN  [graph |-> g,
       routes |-> Take(Concat([i \in 1..Len(node_paths) |->
                                 path_routes(g, node_paths[i])]),
                       MAX_ROUTES_PER_DEMAND)]

\* one demand of getAllPossibleRoutes: the network after it and its routes
demand_routes(g, demand) ==
  LET node_paths == all_simple_paths(g, demand.s, demand.t, max_hops)
  IN  IF node_paths = <<>>
      THEN [graph |-> Append(g, MkEdge(demand.s, demand.t, default_key,
                                       default_attr)),
            routes |-> << <<[u |-> demand.s, v |-> demand.t,
                             key |-> default_key, own |-> TRUE]>> >>]
      ELSE [graph |-> g,
            routes |-> Take(Concat([i \in 1..Len(node_paths) |->
                                      path_routes(g, node_paths[i])]),
                            MAX_ROUTES_PER_DEMAND)]

RECURSIVE getAllPossibleRoutes(_, _)
getAllPossibleRoutes(g, dems) ==
  IF dems = <<>> THEN [graph |-> g, R_ij |-> <<>>]
  ELSE LET first == demand_routes(g, Head(dems))
           rest == getAllPossibleRoutes(first.graph, Tail(dems))
       IN  [graph |-> rest.graph, R_ij |-> <<first.routes>> \o rest.R_ij]


(***************************************************************************)
(* addVarsForSolver.  The unknown of an edge is named after its endpoints  *)
(* and its color (f_{u}-{v}-{color}, p_{u}-{v}-{color}): parallel edges of *)
(* one color share their unknowns.                                         *)
(***************************************************************************)
addVarsForSolver(g) ==
  [i \in 1..Len(g) |->
     [g[i] EXCEPT !.f_e = Var,
                  !.price = IF g[i].price.t \in {"none", "absent"}
                            THEN Var ELSE g[i].price]]

\* one Real('flow_i_j') per route
new_f_R_vars(R) == [i \in 1..Len(R) |-> [j \in 1..Len(R[i]) |-> Var]]

(***************************************************************************)
(* Terms.  A term of a constraint is a number or an unknown with its name: *)
(* <<"flow", i, j>> for Real('flow_i_j'), <<"f", u, v, color>> and         *)
(* <<"p", u, v, color>> for the unknowns of an edge, <<"500">> for         *)
(* Int(500), which is the z3 unknown named 500 and no number.              *)
(***************************************************************************)
Unknown(nm) == [t |-> "var", n |-> 0, d |-> 1, name |-> nm]
Number(x) == [t |-> "num", n |-> x.n, d |-> x.d, name |-> <<>>]
Term(x, nm) == IF x.t = "var" THEN Unknown(nm) ELSE Number(x)

f_e_term(e) == Term(e.f_e, <<"f", e.u, e.v, e.color>>)
price_term(e) == Term(e.price, <<"p", e.u, e.v, e.color>>)
f_R_term(fvars, i, j) == Term(fvars[i][j], <<"flow", i, j>>)

\* the data dict a route entry holds: the network's record of the edge, or
\* the default_attr dict of the synthetic edge, which has no f_e
route_data(ga, re) ==
  IF re.own
  THEN [u |-> Min(re.u, re.v), v |-> Max(re.u, re.v), key |-> re.key,
        color |-> default_attr.color, capacity |-> default_attr.capacity,
        price |-> default_attr.price, k |-> default_attr.k, f_e |-> Absent]
  ELSE ga[EdgeIndex(ga, re.u, re.v, re.key)]

\* data_dict['f_e'] raises KeyError
RouteKeyError(ga, R) ==
  \E i \in 1..Len(R) : \E j \in 1..Len(R[i]) : \E h \in 1..Len(R[i][j]) :
    route_data(ga, R[i][j][h]).f_e.t = "absent"

\* compute_route_cost: the terms k * f_e + price of the route's dicts
compute_route_cost(ga, route) ==
  [h \in 1..Len(route) |->
     LET data == route_data(ga, route[h])
     IN  [k |-> data.k, f_e |-> f_e_term(data), price |-> price_term(data)]]

\* addConstraints line 158: the route has an entry (u, v, key) of the edge
uses_edge(route, e) ==
  \E h \in 1..Len(route) :
    route[h].u = e.u /\ route[h].v = e.v /\ route[h].key = e.key

\* sum_f_R_on_e: the flows of the routes that use the edge
sum_f_R_on_e(e, R, fvars) ==
  Concat([i \in 1..Len(R) |->
    Concat([j \in 1..Len(R[i]) |->
      IF uses_edge(R[i][j], e) THEN <<f_R_term(fvars, i, j)>> ELSE <<>>])])

\* the number in data.get('capacity', Int(500))
default_capacity == 500

\* data.get('capacity', Int(500))
capacity_term(e) ==
  IF e.capacity.t = "absent" THEN Unknown(<<"500">>) ELSE Number(e.capacity)

\* C1: f_e == 0, or f_e == Sum(sum_f_R_on_e)
C1(g, R, fvars) ==
  [x \in 1..Len(g) |->
     [f_e |-> f_e_term(g[x]), sum |-> sum_f_R_on_e(g[x], R, fvars)]]

\* C2: f_e <= capacity
C2(g) ==
  [x \in 1..Len(g) |->
     [f_e |-> f_e_term(g[x]), capacity |-> capacity_term(g[x])]]

\* C3: Sum(f_R_vars[i]) == d_i
C3(fvars, dems) ==
  [i \in 1..Len(dems) |->
     [sum |-> [j \in 1..Len(fvars[i]) |-> f_R_term(fvars, i, j)],
      d |-> dems[i].d]]

\* C5 and C4 of every route of every demand, against T_i
C4_C5(ga, R, fvars, dems) ==
  [i \in 1..Len(dems) |->
     [j \in 1..Len(R[i]) |->
        [f_R |-> f_R_term(fvars, i, j),
         cost_R |-> compute_route_cost(ga, R[i][j])]]]

\* f_R >= 0
NonNeg(fvars) ==
  Concat([i \in 1..Len(fvars) |->
            [j \in 1..Len(fvars[i]) |-> f_R_term(fvars, i, j)]])

\* addConstraints(graph, R_ij, f_R_vars, demands, solver): the constraints
\* it asserts.  g is the graph passed in; the route entries hold the data
\* dicts of ga, the graph the routes were enumerated on.
addConstraints(g, ga, R, fvars, dems) ==
  [C1 |-> C1(g, R, fvars),
   C2 |-> C2(g),
   C3 |-> C3(fvars, dems),
   C4_C5 |-> C4_C5(ga, R, fvars, dems),
   NonNeg |-> NonNeg(fvars)]

(***************************************************************************)
(* What the constraints mean.  An assignment a maps names of unknowns to   *)
(* numbers.                                                                *)
(***************************************************************************)
Value(term, a) ==
  IF term.t = "var" THEN a[term.name] ELSE [t |-> "num", n |-> term.n, d |-> term.d]

RECURSIVE SumOf(_, _)
SumOf(terms, a) ==
  IF terms = <<>> THEN Num(0)
  ELSE RAdd(Value(Head(terms), a), SumOf(Tail(terms), a))

\* the value of Sum(cost_terms), each term k * f_e + price
CostOf(cost_R, a) ==
  RSum([h \in 1..Len(cost_R) |->
          RAdd(Rat(cost_R[h].k.n * Value(cost_R[h].f_e, a).n,
                   cost_R[h].k.d * Value(cost_R[h].f_e, a).d),
               Value(cost_R[h].price, a))])

HoldsC1(c, a) == REq(Value(c.f_e, a), SumOf(c.sum, a))
HoldsC2(c, a) == RLe(Value(c.f_e, a), Value(c.capacity, a))
\* an oracle that is not held to C3
HoldsC3_dropped(c, a) == TRUE
HoldsC3(c, a) == REq(SumOf(c.sum, a), Num(c.d))

\* cost_R >= T_i, and f_R >= TOLERANCE_FLOW implies
\* T_i - TOLERANCE_COST <= cost_R <= T_i + TOLERANCE_COST
Wardrop(cost, f_R, T) ==
  /\ RLe(T, cost)
  /\ RLe(Num(TOLERANCE_FLOW), f_R) =>
       /\ RLe(cost, RAdd(T, Num(TOLERANCE_COST)))
       /\ RLe(RAdd(T, Num(-TOLERANCE_COST)), cost)

\* some value of T_i satisfies C4 and C5 of the demand's routes.  If any
\* value does, the least route cost does.
HoldsC4_C5(cs, a) ==
  LET cost == [j \in 1..Len(cs) |-> CostOf(cs[j].cost_R, a)]
  IN  \/ cs = <<>>
      \/ \E T \in Range(cost) :
           \A j \in 1..Len(cs) : Wardrop(cost[j], Value(cs[j].f_R, a), T)

Holds(cs, a) ==
  /\ \A x \in 1..Len(cs.C1) : HoldsC1(cs.C1[x], a)
  /\ \A x \in 1..Len(cs.C2) : HoldsC2(cs.C2[x], a)
  /\ \A i \in 1..Len(cs.C3) : HoldsC3(cs.C3[i], a)
  /\ \A i \in 1..Len(cs.C4_C5) : HoldsC4_C5(cs.C4_C5[i], a)
  /\ \A x \in 1..Len(cs.NonNeg) : RLe(Num(0), Value(cs.NonNeg[x], a))

(***************************************************************************)
(* The oracle: solver.check() on the asserted constraints.  It searches    *)
(* the reals on the grids below: route flows among 0, 1, d - 1 and d,      *)
(* none above the demand, prices among PriceGrid: addConstraints puts no   *)
(* bound on a price, so the grid has a value above P_MAX.  Its unsat says  *)
(* that no assignment on the grids satisfies the constraints.  Every check *)
(* may also answer unknown: solveUnknownPrices sets a timeout of 2000 ms.  *)
(***************************************************************************)
FlowGrid(d) == {x \in {0, 1, d - 1, d} : x >= 0}
PriceGrid == {100, 700}
Int500Grid == {600}

\* the unknowns among the terms
Names(terms) == {terms[x].name : x \in {y \in 1..Len(terms) : terms[y].t = "var"}}

FlowNames(c3) == Names(c3.sum)

PriceNames(cs) ==
  UNION {UNION {Names([h \in 1..Len(cs.C4_C5[i][j].cost_R) |->
                         cs.C4_C5[i][j].cost_R[h].price]) :
                  j \in 1..Len(cs.C4_C5[i])} : i \in 1..Len(cs.C4_C5)}

CapacityNames(cs) == Names([x \in 1..Len(cs.C2) |-> cs.C2[x].capacity])

EdgeFlowNames(cs) == Names([x \in 1..Len(cs.C1) |-> cs.C1[x].f_e])

RECURSIVE FlowCands(_, _, _)
\* the values on the grid of the unknowns among the terms that add up to
\* at most d
FlowCands(terms, grid, d) ==
  IF terms = <<>> THEN {<<>>}
  ELSE IF Head(terms).t # "var" THEN FlowCands(Tail(terms), grid, d)
  ELSE UNION {{(Head(terms).name :> Num(x)) @@ rest :
                 rest \in FlowCands(Tail(terms), grid, d - x)} :
              x \in {y \in grid : y <= d}}

\* the values of the route flows of one demand that are on the grid and
\* satisfy C3
DemandCands(c3) ==
  {f \in FlowCands(c3.sum, FlowGrid(c3.d), c3.d) : HoldsC3(c3, f)}

RECURSIVE Merge(_)
\* the assignments that take one of each set of a sequence of sets
Merge(sets) ==
  IF sets = <<>> THEN {<<>>}
  ELSE {f @@ rest : f \in Head(sets), rest \in Merge(Tail(sets))}

\* the assignment with the route flows and prices of b, in which an edge's
\* flow unknown has the value C1 leaves it
Complete(cs, b) ==
  b @@ [nm \in EdgeFlowNames(cs) |->
          SumOf(cs.C1[CHOOSE x \in 1..Len(cs.C1) :
                        cs.C1[x].f_e.t = "var" /\ cs.C1[x].f_e.name = nm].sum,
                b)]

Candidates(cs) ==
  {Complete(cs, b) :
     b \in Merge(<<[PriceNames(cs) -> {Num(x) : x \in PriceGrid}],
                   [CapacityNames(cs) -> {Num(x) : x \in Int500Grid}]>>
                 \o [i \in 1..Len(cs.C3) |-> DemandCands(cs.C3[i])])}

SatModels(cs) == {a \in Candidates(cs) : Holds(cs, a)}

NoModel == [t |-> "none", val |-> <<>>]
\* what Optimize.model() hands out after a check that was not sat
PartialModel == [t |-> "partial", val |-> <<>>]

\* solver.check() and, when sat, solver.model(), given the satisfying
\* assignments
answers(models) ==
  {[r |-> "sat", m |-> [t |-> "model", val |-> a]] : a \in models}
    \cup (IF models = {} THEN {[r |-> "unsat", m |-> NoModel]} ELSE {})
    \cup {[r |-> "unknown", m |-> NoModel]}

(***************************************************************************)
(* The strategies.                                                         *)
(***************************************************************************)
\* solverUtils.setPricesHighToLow line 284: the sum of the prices the
\* route's dicts hold
route_price(ga, route) ==
  [h \in 1..Len(route) |-> route_data(ga, route[h]).price]

\* compute_route_price(graph, route_edges) of solveStrategy.py, which no
\* file of the repository defines: the sum of the prices of the route's
\* edges in the graph
compute_route_price(ga, route) ==
  [h \in 1..Len(route) |->
     ga[EdgeIndex(ga, route[h].u, route[h].v, route[h].key)].price]

route_prices(module, ga, routes) ==
  [j \in 1..Len(routes) |->
     IF module = "solverUtils" THEN route_price(ga, routes[j])
     ELSE compute_route_price(ga, routes[j])]

\* the demand's route prices are all numbers: its flows are set directly
Determined(prices) ==
  \A j \in 1..Len(prices) : \A h \in 1..Len(prices[j]) : ~is_expr(prices[j][h])

\* (route_price / total) * demands[i]["d"]
proportional_split(prices, d_i) ==
  LET price == [j \in 1..Len(prices) |-> RSum(prices[j])]
      total == RSum(price)
  IN  [j \in 1..Len(prices) |->
         Rat(price[j].n * total.d * d_i, price[j].d * total.n)]

\* sum(route_prices) is 0: route_price / total raises ZeroDivisionError
SplitDivByZero(module, ga, R) ==
  \E i \in 1..Len(R) :
    LET prices == route_prices(module, ga, R[i])
    IN  Determined(prices)
          /\ RSum([j \in 1..Len(prices) |-> RSum(prices[j])]).n = 0

\* f_R_vars after the first loop of setPricesHighToLow
split_f_R_vars(module, ga, R, fvars, dems) ==
  [i \in 1..Len(R) |->
     LET prices == route_prices(module, ga, R[i])
     IN  IF Determined(prices) THEN proportional_split(prices, dems[i].d)
         ELSE fvars[i]]

\* graph.copy() with the price under trial in place of every price that is
\* a z3 expression
graph_copy(g, p) ==
  [x \in 1..Len(g) |->
     IF g[x].price.t # "absent" /\ is_expr(g[x].price)
     THEN [g[x] EXCEPT !.price = Num(p)] ELSE g[x]]

\* the while condition of setPricesHighToLow
loop_condition(sat, p) == sat = "sat" /\ p >= P_MIN

\* solverUtils.setPricesHighToLow lines 317-320
solverUtils_isSolved(sat, m, last) == sat = "sat"

\* solveStrategy.setPricesHighToLow line 89
solveStrategy_isSolved(sat, m, last) == m.t # "none" /\ last.t # "none"

\* a commit that writes the price to every edge
commit_price_everywhere(g, last) ==
  [x \in 1..Len(g) |-> [g[x] EXCEPT !.price = last]]

\* solveStrategy.setPricesHighToLow lines 91-93: the last satisfiable price
\* goes to every edge whose price is a z3 expression
commit_price(g, last) ==
  [x \in 1..Len(g) |->
     IF g[x].price.t # "absent" /\ is_expr(g[x].price)
     THEN [g[x] EXCEPT !.price = last] ELSE g[x]]

(***************************************************************************)
(* getUpdatedGraphAndSolution.                                             *)
(***************************************************************************)
Z3Num(r) == [t |-> "z3num", n |-> r.n, d |-> r.d]

\* model.evaluate(x) of the term x: the assigned numeral, or x itself when
\* the model assigns nothing to it
evaluate(m, x, term) ==
  IF term.t = "var" /\ term.name \in DOMAIN m.val
  THEN Z3Num(m.val[term.name]) ELSE x

\* model.evaluate(f_R) of a Python float raises
EvaluateError(fvars) ==
  \E i \in 1..Len(fvars) : \E j \in 1..Len(fvars[i]) : fvars[i][j].t # "var"

\* model.evaluate(f_R).as_long() of every route flow
f_R_vals(m, fvars) ==
  [i \in 1..Len(fvars) |->
     [j \in 1..Len(fvars[i]) |-> m.val[<<"flow", i, j>>].n]]

\* lines 343-356: f_e and price of every edge
updated_edge(e, m) ==
  [e EXCEPT
     !.f_e = IF is_expr(e.f_e) THEN evaluate(m, e.f_e, f_e_term(e)) ELSE None,
     !.price = IF is_expr(e.price) THEN evaluate(m, e.price, price_term(e))
               ELSE None]

updated_graph(g, m) == [x \in 1..Len(g) |-> updated_edge(g[x], m)]

\* runExperiments lines 35-39: the edge's k * f_e + price is added to the
\* revenue
in_revenue(e) == ~(is_expr(e.price) \/ is_expr(e.f_e))

\* the parameters of getUpdatedGraphAndSolution(graph, model, f_R_vars)
extract_params == 3
\* dynamicPricing.py line 32 passes (graph, model), line 42 passes
\* (graph, model, f_R_vars)
extract_args_A == 2
extract_args_B == 3

NoSolution == [t |-> "none", f_R_vals |-> <<>>]
Unset == [t |-> "unset", f_R_vals |-> <<>>]

(***************************************************************************)
(* solveUnknownPrices and dynamicPricing.                                  *)
(***************************************************************************)
\* a selector that gives up when Strategy A fails
after_optimize_gives_up(solved) == IF solved THEN "DONE" ELSE "FAILED"

\* solveUnknownPrices lines 31-35: after Strategy A
after_optimize(solved) == IF solved THEN "DONE" ELSE "TRY_SEARCH"

\* solveUnknownPrices lines 41-45: after Strategy B
after_search(solved) == IF solved THEN "DONE" ELSE "FAILED"

\* what solveUnknownPrices returns once the extractor has run: it has no
\* return statement on that path
return_after_extract == "None"

\* line 45: return graph, None
return_after_failure == "tuple"

\* a caller that reports whatever the cycle returned
reports_always(sol) == TRUE

\* dynamicPricing line 71
reports_solution(sol) == sol.t # "none"

UnknownPrice(e) == e.price.t \in {"absent", "none", "var"}

EdgeId(e) == <<e.u, e.v, e.key>>

VARIABLES
  strategyModule,  \* the module whose strategies the run calls
  graph,           \* the network
  demands,         \* the demand list
  routes,          \* the route feed
  next,            \* index in routes of the next route
  pc,              \* where the run is
  R_ij,            \* the route set of the cycle
  f_R_vars,        \* the route flow unknowns (floats after the split)
  model,           \* the strategy's model
  isSolved,
  isSat,           \* Strategy B: the last check's answer
  p_current,       \* Strategy B: the price under trial
  last_sat_price,  \* Strategy B of solveStrategy.py
  solution,        \* the solution of the cycle
  ret,             \* what solveUnknownPrices returned
  raised,          \* the exception that ended the run
  reports,         \* calls of runExperiments
  persisted,       \* writeGraphToJSON has run
  selector,        \* history: the selector's states in this cycle
  resultA,         \* history: the oracle's answer to Strategy A
  checks,          \* history: the trials of Strategy B, [p, r]
  unknown0,        \* history: edges whose price was unknown at the solve
  cycles,          \* history: the routes whose solve cycle started
  oracle,          \* memo: the constraints last checked, and what satisfies them
  call             \* a function called on its own: its arguments and results

vars ==
  <<strategyModule, graph, demands, routes, next, pc, R_ij, f_R_vars, model,
    isSolved, isSat, p_current, last_sat_price, solution, ret, raised,
    reports, persisted, selector, resultA, checks, unknown0, cycles,
    oracle, call>>

\* no function is called on its own
NoCall == [fn |-> "none"]

inputs == <<strategyModule, demands, routes, call>>
locals == <<R_ij, f_R_vars, model, isSolved, isSat, p_current, last_sat_price>>
search == <<isSat, p_current, last_sat_price, checks>>

Init ==
  /\ strategyModule \in StrategyModules
  /\ \E input \in Inputs :
       /\ graph = parseGraph(input.edges)
       /\ demands = input.demands
  /\ routes \in SeqsUpTo(RouteInputs, MaxFeed)
  /\ next = 1
  /\ pc = "loop"
  /\ R_ij = <<>>
  /\ f_R_vars = <<>>
  /\ model = NoModel
  /\ isSolved = FALSE
  /\ isSat = "sat"
  /\ p_current = P_MAX
  /\ last_sat_price = None
  /\ solution = Unset
  /\ ret = "None"
  /\ raised = "none"
  /\ reports = 0
  /\ persisted = FALSE
  /\ selector = <<>>
  /\ resultA = "none"
  /\ checks = <<>>
  /\ unknown0 = {}
  /\ cycles = <<>>
  /\ oracle = [constraints |-> <<>>, models |-> {}]
  /\ call = NoCall

\* the assignments that satisfy the constraints cs
solutions(cs) ==
  IF oracle.constraints = cs THEN oracle.models ELSE SatModels(cs)

\* the oracle has checked the constraints cs, which models satisfy
Checked(cs, models) == oracle' = [constraints |-> cs, models |-> models]

Raise(e) ==
  /\ raised' = e
  /\ pc' = "raised"

\* dynamicPricing lines 63-68: the next route's edge, then the routes
AddRoute ==
  /\ pc = "loop"
  /\ next <= Len(routes)
  /\ LET route == routes[next]
         r == getAllPossibleRoutes(
                add_edge(graph, route.v1, route.v2, route.data), demands)
     IN  /\ graph' = r.graph
         /\ R_ij' = r.R_ij
  /\ next' = next + 1
  /\ pc' = "solve"
  /\ f_R_vars' = <<>>
  /\ model' = NoModel
  /\ isSolved' = FALSE
  /\ isSat' = "sat"
  /\ p_current' = P_MAX
  /\ last_sat_price' = None
  /\ solution' = Unset
  /\ ret' = "None"
  /\ selector' = <<>>
  /\ resultA' = "none"
  /\ checks' = <<>>
  /\ unknown0' = {}
  /\ UNCHANGED <<inputs, raised, reports, persisted, cycles, oracle>>

\* solveUnknownPrices lines 18-21
BuildVars ==
  /\ pc = "solve"
  /\ unknown0' = {EdgeId(graph[x]) : x \in {y \in 1..Len(graph) :
                                             UnknownPrice(graph[y])}}
  /\ graph' = addVarsForSolver(graph)
  /\ f_R_vars' = new_f_R_vars(R_ij)
  /\ cycles' = Append(cycles, next - 1)
  /\ selector' = <<"TRY_OPTIMIZE">>
  /\ pc' = "TRY_OPTIMIZE"
  /\ UNCHANGED <<inputs, next, R_ij, model, isSolved, search, solution, ret,
                 raised, reports, persisted, resultA, oracle>>

\* Strategy A: optimizeObjective, then solveUnknownPrices lines 31-35
TryOptimize ==
  /\ pc = "TRY_OPTIMIZE"
  /\ IF RouteKeyError(graph, R_ij)
     THEN /\ Raise("KeyError")
          /\ UNCHANGED <<model, isSolved, selector, resultA, oracle>>
     ELSE LET cs == addConstraints(graph, graph, R_ij, f_R_vars, demands)
              models == solutions(cs)
          IN  \E o \in answers(models) :
            /\ Checked(cs, models)
            /\ resultA' = o.r
            /\ model' = o.m
            /\ isSolved' = (o.r = "sat")
            /\ pc' = after_optimize(o.r = "sat")
            /\ selector' = Append(selector, after_optimize(o.r = "sat"))
            /\ UNCHANGED raised
  /\ UNCHANGED <<inputs, graph, next, R_ij, f_R_vars, search, solution, ret,
                 reports, persisted, unknown0, cycles>>

\* Strategy B: setPricesHighToLow up to its while loop
SearchSetup ==
  /\ pc = "TRY_SEARCH"
  /\ IF SplitDivByZero(strategyModule, graph, R_ij)
     THEN /\ Raise("ZeroDivisionError")
          /\ UNCHANGED f_R_vars
     ELSE /\ f_R_vars' = split_f_R_vars(strategyModule, graph, R_ij,
                                        f_R_vars, demands)
          /\ pc' = "trial"
          /\ UNCHANGED raised
  /\ p_current' = P_MAX
  /\ isSat' = "sat"
  /\ model' = NoModel
  /\ last_sat_price' = None
  /\ UNCHANGED <<inputs, graph, next, R_ij, isSolved, solution, ret, reports,
                 persisted, selector, resultA, checks, unknown0, cycles,
                 oracle>>

\* one iteration of the while loop of solverUtils.setPricesHighToLow
TrialSolverUtils ==
  /\ pc = "trial"
  /\ strategyModule = "solverUtils"
  /\ LET cs == addConstraints(graph_copy(graph, p_current), graph, R_ij,
                              f_R_vars, demands)
         models == solutions(cs)
     IN  \E o \in answers(models) :
       /\ Checked(cs, models)
       /\ isSat' = o.r
       /\ checks' = Append(checks, [p |-> p_current, r |-> o.r])
       /\ IF o.r = "unsat"
          THEN /\ pc' = "search_end"
               /\ UNCHANGED <<model, p_current, raised>>
          ELSE \* model = solver.model(): after unknown, it raises or
               \* hands out whatever the oracle was left with
               \/ /\ model' = IF o.r = "sat" THEN o.m ELSE PartialModel
                  /\ p_current' = p_current - P_DELTA
                  /\ pc' = IF loop_condition(o.r, p_current - P_DELTA)
                           THEN "trial" ELSE "search_end"
                  /\ UNCHANGED raised
               \/ /\ o.r = "unknown"
                  /\ Raise("Z3Exception")
                  /\ UNCHANGED <<model, p_current>>
  /\ UNCHANGED <<inputs, graph, next, R_ij, f_R_vars, isSolved,
                 last_sat_price, solution, ret, reports, persisted, selector,
                 resultA, unknown0, cycles>>

\* one iteration of the while loop of solveStrategy.setPricesHighToLow
TrialSolveStrategy ==
  /\ pc = "trial"
  /\ strategyModule = "solveStrategy"
  /\ LET cs == addConstraints(graph_copy(graph, p_current), graph, R_ij,
                              f_R_vars, demands)
         models == solutions(cs)
     IN  \E o \in answers(models) :
       /\ Checked(cs, models)
       /\ isSat' = o.r
       /\ checks' = Append(checks, [p |-> p_current, r |-> o.r])
       /\ IF o.r = "sat"
          THEN /\ model' = o.m
               /\ last_sat_price' = Num(p_current)
               /\ p_current' = p_current - P_DELTA
               /\ pc' = IF loop_condition(o.r, p_current - P_DELTA)
                        THEN "trial" ELSE "search_end"
          ELSE /\ pc' = "search_end"
               /\ UNCHANGED <<model, last_sat_price, p_current>>
  /\ UNCHANGED <<inputs, graph, next, R_ij, f_R_vars, isSolved, solution,
                 ret, raised, reports, persisted, selector, resultA,
                 unknown0, cycles>>

\* setPricesHighToLow after its loop, then solveUnknownPrices lines 41-45
SearchEnd ==
  /\ pc = "search_end"
  /\ LET solved == IF strategyModule = "solverUtils"
                   THEN solverUtils_isSolved(isSat, model, last_sat_price)
                   ELSE solveStrategy_isSolved(isSat, model, last_sat_price)
     IN  /\ isSolved' = solved
         /\ graph' = IF strategyModule = "solveStrategy" /\ solved
                     THEN commit_price(graph, last_sat_price) ELSE graph
         /\ pc' = after_search(solved)
         /\ selector' = Append(selector, after_search(solved))
  /\ UNCHANGED <<inputs, next, R_ij, f_R_vars, model, search, solution, ret,
                 raised, reports, persisted, resultA, unknown0, cycles,
                 oracle>>

\* getUpdatedGraphAndSolution as solveUnknownPrices calls it, lines 32, 42
Extract ==
  /\ pc = "DONE"
  /\ IF (IF resultA = "sat" THEN extract_args_A ELSE extract_args_B)
          # extract_params
     THEN /\ Raise("TypeError")
          /\ UNCHANGED <<graph, solution, ret>>
     ELSE IF EvaluateError(f_R_vars)
     THEN /\ Raise("AttributeError")
          /\ UNCHANGED <<graph, solution, ret>>
     ELSE /\ solution' = [t |-> "solution", f_R_vals |-> f_R_vals(model, f_R_vars)]
          /\ graph' = updated_graph(graph, model)
          /\ ret' = return_after_extract
          /\ pc' = "returned"
          /\ UNCHANGED raised
  /\ UNCHANGED <<inputs, next, locals, reports, persisted, selector, resultA,
                 checks, unknown0, cycles, oracle>>

\* solveUnknownPrices lines 44-45
Fail ==
  /\ pc = "FAILED"
  /\ solution' = NoSolution
  /\ ret' = return_after_failure
  /\ pc' = "returned"
  /\ UNCHANGED <<inputs, graph, next, locals, raised, reports, persisted,
                 selector, resultA, checks, unknown0, cycles, oracle>>

\* dynamicPricing lines 70-72: graph, solution = solveUnknownPrices(...)
Resume ==
  /\ pc = "returned"
  /\ IF ret = "None"
     THEN /\ Raise("TypeError")
          /\ UNCHANGED reports
     ELSE /\ reports' = IF reports_solution(solution)
                        THEN reports + 1 ELSE reports
          /\ pc' = "loop"
          /\ UNCHANGED raised
  /\ UNCHANGED <<inputs, graph, next, locals, solution, ret, persisted,
                 selector, resultA, checks, unknown0, cycles, oracle>>

\* dynamicPricing line 75: writeGraphToJSON after the last route
Persist ==
  /\ pc = "loop"
  /\ next > Len(routes)
  /\ persisted' = TRUE
  /\ pc' = "done"
  /\ UNCHANGED <<inputs, graph, next, locals, solution, ret, raised, reports,
                 selector, resultA, checks, unknown0, cycles, oracle>>

Next ==
  \/ AddRoute
  \/ BuildVars
  \/ TryOptimize
  \/ SearchSetup
  \/ TrialSolverUtils
  \/ TrialSolveStrategy
  \/ SearchEnd
  \/ Extract
  \/ Fail
  \/ Resume
  \/ Persist

Spec == Init /\ [][Next]_vars

(***************************************************************************)
(* getAllPossibleRoutes called on its own, MaxCalls times in a row on one  *)
(* network and one demand list, nothing else touching the network.         *)
(***************************************************************************)
\* the variables of the orchestration loop
program ==
  <<strategyModule, graph, demands, routes, next, pc, R_ij, f_R_vars, model,
    isSolved, isSat, p_current, last_sat_price, solution, ret, raised,
    reports, persisted, selector, resultA, checks, unknown0, cycles, oracle>>

\* the orchestration loop is not running
Idle ==
  /\ strategyModule = "solverUtils"
  /\ graph = <<>>
  /\ demands = <<>>
  /\ routes = <<>>
  /\ next = 1
  /\ pc = "call"
  /\ R_ij = <<>>
  /\ f_R_vars = <<>>
  /\ model = NoModel
  /\ isSolved = FALSE
  /\ isSat = "sat"
  /\ p_current = P_MAX
  /\ last_sat_price = None
  /\ solution = Unset
  /\ ret = "None"
  /\ raised = "none"
  /\ reports = 0
  /\ persisted = FALSE
  /\ selector = <<>>
  /\ resultA = "none"
  /\ checks = <<>>
  /\ unknown0 = {}
  /\ cycles = <<>>
  /\ oracle = [constraints |-> <<>>, models |-> {}]

MaxCalls == 2

\* networks on the nodes 1 to 5: a chain, parallel edges, a triangle of
\* doubled edges (17 routes from 1 to 3) and a network of no edge
EnumNetworks ==
  LET red(a, b) == EdgeInput(a, b, EdgeData("red", Num(1), None, Num(1)))
      Bus(a, b) == EdgeInput(a, b, EdgeData("Bus", Num(200), Num(5), Num(2)))
  IN  { <<>>,
        <<red(1, 2)>>,
        <<red(1, 2), Bus(1, 2)>>,
        <<red(1, 2), red(2, 3), red(3, 4), red(4, 5)>>,
        <<red(1, 2), Bus(1, 2), red(2, 3), Bus(2, 3), Bus(1, 3)>> }

EnumDemands ==
  { Demand(1, 2, 2), Demand(2, 1, 2), Demand(1, 3, 2), Demand(3, 1, 2),
    Demand(2, 3, 2), Demand(1, 4, 2), Demand(1, 5, 2), Demand(4, 5, 2) }

\* the route lists as Python compares them: every entry is the tuple
\* (u, v, key, data_dict), a dict counting by its content
route_values(ga, R) ==
  [i \in 1..Len(R) |-> [j \in 1..Len(R[i]) |-> [h \in 1..Len(R[i][j]) |->
     LET re == R[i][j][h]
         data == route_data(ga, re)
     IN  [u |-> re.u, v |-> re.v, key |-> re.key,
          data |-> [color |-> data.color, capacity |-> data.capacity,
                    price |-> data.price, k |-> data.k, f_e |-> data.f_e]]]]]

EnumInit ==
  /\ Idle
  /\ \E edges \in EnumNetworks, dems \in SeqsUpTo(EnumDemands, 2) :
       call = [fn |-> "getAllPossibleRoutes", graph |-> parseGraph(edges),
               demands |-> dems, before |-> <<>>, results |-> <<>>]

\* R_ij = getAllPossibleRoutes(graph, demands)
EnumCall ==
  /\ call.fn = "getAllPossibleRoutes"
  /\ Len(call.results) < MaxCalls
  /\ LET r == getAllPossibleRoutes(call.graph, call.demands)
     IN  call' = [call EXCEPT !.graph = r.graph,
                              !.before = Append(@, call.graph),
                              !.results = Append(@, route_values(r.graph, r.R_ij))]
  /\ UNCHANGED program

EnumNext == EnumCall

EnumSpec == EnumInit /\ [][EnumNext]_vars


(***************************************************************************)
(* parseGraph called on its own on the content of an input file: the       *)
(* networks Metro and Bus, the table k and the demands.                    *)
(***************************************************************************)
MaxEdges == 2

MetroEdges ==
  { EdgeInput(1, 2, EdgeData("red", Num(100), Num(5), Absent)),
    EdgeInput(2, 3, EdgeData("blue", Num(100), None, Absent)),
    EdgeInput(3, 1, EdgeData("red", Num(100), Num(5), Num(7))) }

BusEdges ==
  { EdgeInput(1, 2, EdgeData("Bus", Num(200), Num(5), Absent)),
    EdgeInput(2, 3, EdgeData("Bus", Absent, None, Num(9))) }

ParseInputs ==
  { [networks |-> <<[name |-> "Metro", edges |-> metro],
                    [name |-> "Bus", edges |-> bus]>>,
     k |-> [Metro |-> [red |-> 1, blue |-> 3], Bus |-> 2],
     demands |-> dems] :
      metro \in SeqsUpTo(MetroEdges, MaxEdges),
      bus \in SeqsUpTo(BusEdges, MaxEdges),
      dems \in {<<>>, <<Demand(1, 3, 400)>>} }

ParseInit ==
  /\ Idle
  /\ \E data \in ParseInputs :
       call = [fn |-> "parseGraph", data |-> data, returned |-> FALSE,
               graph |-> <<>>, demands |-> <<>>]

\* graph, demands = parseGraph(inputfile)
ParseCall ==
  /\ call.fn = "parseGraph"
  /\ ~call.returned
  /\ call' = [call EXCEPT !.returned = TRUE,
                          !.graph = parseGraph(edges_with_k(call.data)),
                          !.demands = call.data.demands]
  /\ UNCHANGED program

ParseNext == ParseCall

ParseSpec == ParseInit /\ [][ParseNext]_vars

(***************************************************************************)
(* The properties.  A strategy has reported a solution when the selector   *)
(* is at DONE: the solution is the strategy's model and, for the demands   *)
(* of the proportional split, the flows the split set.                     *)
(***************************************************************************)
Solved == pc = "DONE"
ByOptimize == selector = <<"TRY_OPTIMIZE", "DONE">>
BySearch == selector = <<"TRY_OPTIMIZE", "TRY_SEARCH", "DONE">>
BothFailed == selector = <<"TRY_OPTIMIZE", "TRY_SEARCH", "FAILED">>

\* the resolved flow of route j of demand i
flow_R(i, j) ==
  IF f_R_vars[i][j].t = "var" THEN model.val[<<"flow", i, j>>]
  ELSE f_R_vars[i][j]

\* the resolved flow and price of an edge of the network
flow_e(e) == model.val[<<"f", e.u, e.v, e.color>>]
price_e(e) ==
  IF e.price.t = "var" THEN model.val[<<"p", e.u, e.v, e.color>>] ELSE e.price

\* the route has an entry of the edge, in either direction
traverses(route, e) ==
  \E h \in 1..Len(route) :
    /\ Min(route[h].u, route[h].v) = e.u
    /\ Max(route[h].u, route[h].v) = e.v
    /\ route[h].key = e.key

\* the prices whose trial was satisfiable
SatPrices == {checks[x].p : x \in {y \in 1..Len(checks) : checks[y].r = "sat"}}

\* C1: the selector follows TRY_OPTIMIZE -> DONE | TRY_SEARCH -> DONE |
\* FAILED: when Strategy A does not report a solution Strategy B is invoked
\* in the same cycle, and the cycle fails only after Strategy B has run and
\* failed.
C1_SelectorOrder ==
  /\ selector \in {<<>>, <<"TRY_OPTIMIZE">>,
                   <<"TRY_OPTIMIZE", "DONE">>,
                   <<"TRY_OPTIMIZE", "TRY_SEARCH">>,
                   <<"TRY_OPTIMIZE", "TRY_SEARCH", "DONE">>,
                   <<"TRY_OPTIMIZE", "TRY_SEARCH", "FAILED">>}
  /\ resultA \in {"unsat", "unknown"} =>
       Len(selector) >= 2 /\ selector[2] = "TRY_SEARCH"
  /\ (pc = "FAILED" \/ solution = NoSolution) =>
       /\ BothFailed
       /\ resultA \in {"unsat", "unknown"}
       /\ ~isSolved

C1_Witness ==
  /\ solution = NoSolution
  /\ resultA = "unsat"
  /\ checks # <<>>

\* C2: when the oracle reports satisfiable for Strategy A, Strategy B is
\* not attempted, nothing is raised, and what the caller receives is a
\* (graph, solution) pair whose solution is not null.
C2_OptimizeSucceeds ==
  resultA = "sat" =>
    /\ checks = <<>>
    /\ raised = "none"
    /\ pc \in {"returned", "loop", "done"} =>
         ret = "tuple" /\ solution.t = "solution"

\* C3: every route of the feed gets exactly one solve cycle, in feed order;
\* no outcome of a cycle (a strategy's success or the failure of both) ends
\* the run before the last route is processed and the network persisted.
C3_EveryRouteSolved ==
  /\ (Len(selector) >= 2 /\ selector[Len(selector)] \in {"DONE", "FAILED"}) =>
       raised = "none"
  /\ persisted => cycles = [x \in 1..Len(routes) |-> x]

\* C4: when Strategy B succeeds, the satisfiable trial prices are a
\* contiguous descending run from P_MAX, and every edge whose price was
\* unknown holds the lowest of them.
C4_CommitsLowestSat ==
  (Solved /\ BySearch) =>
    /\ SatPrices # {}
    /\ SatPrices =
         {P_MAX - P_DELTA * (x - 1) : x \in 1..Cardinality(SatPrices)}
    /\ \A x \in 1..Len(graph) :
         EdgeId(graph[x]) \in unknown0 =>
           graph[x].price =
             Num(CHOOSE q \in SatPrices : \A r \in SatPrices : q <= r)

\* C5: Strategy B reports success if and only if some trial price was
\* satisfiable.
C5_SuccessIffSomeSat ==
  Len(selector) = 3 => (BySearch <=> SatPrices # {})

\* C6: when both strategies fail the cycle returns no solution,
\* runExperiments is not called for it, and no edge whose price was unknown
\* at the start of the solve has a numeric price.
C6_FailureLeavesUnknown ==
  [][(pc = "returned" /\ BothFailed) =>
       /\ solution = NoSolution
       /\ reports' = reports
       /\ \A x \in 1..Len(graph) :
            EdgeId(graph[x]) \in unknown0 =>
              /\ graph[x].price.t \notin {"num", "z3num"}
              /\ graph'[x].price.t \notin {"num", "z3num"}]_vars

C6_Witness ==
  /\ pc = "loop"
  /\ BothFailed
  /\ unknown0 # {}
  /\ solution = NoSolution

\* C7: in a solution, the route flows of every demand add up to d_i, the
\* demands of the proportional split included.
C7_DemandMet ==
  Solved =>
    \A i \in 1..Len(demands) :
      REq(RSum([j \in 1..Len(R_ij[i]) |-> flow_R(i, j)]), Num(demands[i].d))

C7_Witness ==
  /\ Solved
  /\ BySearch
  /\ Len(f_R_vars[1]) >= 2
  /\ f_R_vars[1][1].t = "num"

\* C8: in a solution, the flow of every edge is the sum of the flows of the
\* routes that traverse it, in either direction, and 0 when none does.
C8_FlowConservation ==
  Solved =>
    \A x \in 1..Len(graph) :
      REq(flow_e(graph[x]),
          RSum(Concat([i \in 1..Len(R_ij) |->
                 Concat([j \in 1..Len(R_ij[i]) |->
                   IF traverses(R_ij[i][j], graph[x])
                   THEN <<flow_R(i, j)>> ELSE <<>>])])))

\* C9: in a solution, the flow of every edge is at most the edge's
\* capacity, or the default capacity when the edge has none.
C9_Capacity ==
  Solved =>
    \A x \in 1..Len(graph) :
      RLe(flow_e(graph[x]),
          IF graph[x].capacity.t = "absent" THEN Num(default_capacity)
          ELSE graph[x].capacity)

\* the cost of a route at the resolved flows and prices
cost_R(route) ==
  RSum([h \in 1..Len(route) |->
          LET e == graph[EdgeIndex(graph, route[h].u, route[h].v, route[h].key)]
          IN  RAdd(Rat(e.k.n * flow_e(e).n, e.k.d * flow_e(e).d), price_e(e))])

Enumerated == call.fn = "getAllPossibleRoutes" /\ call.results # <<>>

\* the network and the routes the last call returned
last_graph == call.graph
last_R == call.results[Len(call.results)]

\* the route is a sequence of edges of the network g that leads from s to t
ConnectedRoute(g, route, s, t) ==
  /\ route # <<>>
  /\ route[1].u = s
  /\ route[Len(route)].v = t
  /\ \A h \in 1..(Len(route) - 1) : route[h].v = route[h + 1].u
  /\ \A h \in 1..Len(route) :
       \E x \in 1..Len(g) :
         /\ {g[x].u, g[x].v} = {route[h].u, route[h].v}
         /\ g[x].key = route[h].key

\* C11: after the enumeration no demand has an empty route set, and every
\* route of a demand is a sequence of edges of the network, each starting
\* where the one before it ends, from the demand's source to its target
C11_RoutesConnected ==
  Enumerated =>
    /\ Len(last_R) = Len(call.demands)
    /\ \A i \in 1..Len(last_R) :
         /\ last_R[i] # <<>>
         /\ \A j \in 1..Len(last_R[i]) :
              ConnectedRoute(last_graph, last_R[i][j],
                             call.demands[i].s, call.demands[i].t)

\* a demand with the full MAX_ROUTES_PER_DEMAND routes, one of them of two
\* edges, and a demand whose only route is the synthetic edge
C11_Witness ==
  /\ Enumerated
  /\ \E i \in 1..Len(last_R) :
       /\ Len(last_R[i]) = MAX_ROUTES_PER_DEMAND
       /\ \E j \in 1..Len(last_R[i]) : Len(last_R[i][j]) = 2
  /\ \E i \in 1..Len(last_R) : last_R[i][1][1].key = default_key

\* the nodes at most n edges away from the nodes S
RECURSIVE Within(_, _, _)
Within(g, S, n) ==
  IF n = 0 THEN S
  ELSE Within(g, S \cup {g[x].u : x \in {y \in 1..Len(g) : g[y].v \in S}}
                   \cup {g[x].v : x \in {y \in 1..Len(g) : g[y].u \in S}},
              n - 1)

NoPath(g, demand) == demand.t \notin Within(g, {demand.s}, max_hops)

\* the network as call k found it when it came to its demand i
network_before(k, i) ==
  getAllPossibleRoutes(call.before[k], Take(call.demands, i - 1)).graph

\* C12: for every demand that, when the enumerator comes to it, has no
\* simple path of at most max_hops edges in the network, exactly one edge
\* is added to the network, tagged personal with capacity 200 and price 100
\* between the demand's endpoints, and the demand gets exactly one route,
\* which is that edge alone
C12_SyntheticEdge ==
  Enumerated =>
    \A k \in 1..Len(call.results) : \A i \in 1..Len(call.demands) :
      LET g == network_before(k, i)
          after == network_before(k, i + 1)
          demand == call.demands[i]
          routes_i == call.results[k][i]
      IN  NoPath(g, demand) =>
            /\ Len(after) = Len(g) + 1
            /\ SubSeq(after, 1, Len(g)) = g
            /\ {after[Len(after)].u, after[Len(after)].v} = {demand.s, demand.t}
            /\ after[Len(after)].color = "personal"
            /\ after[Len(after)].capacity = Num(200)
            /\ after[Len(after)].price = Num(100)
            /\ Len(routes_i) = 1
            /\ Len(routes_i[1]) = 1
            /\ routes_i[1][1].u = demand.s
            /\ routes_i[1][1].v = demand.t
            /\ routes_i[1][1].key = after[Len(after)].key
            /\ routes_i[1][1].data.color = "personal"
            /\ routes_i[1][1].data.capacity = Num(200)
            /\ routes_i[1][1].data.price = Num(100)

\* a demand whose endpoints are joined by four edges and by no fewer got
\* the synthetic edge
C12_Witness ==
  /\ Enumerated
  /\ \E i \in 1..Len(call.demands) :
       LET g == network_before(1, i)
           demand == call.demands[i]
       IN  /\ NoPath(g, demand)
           /\ demand.t \in Within(g, {demand.s}, max_hops + 1)
           /\ call.results[1][i][1][1].data.color = "personal"

\* C13: two calls in a row on the same network and demand list, no edge
\* added by anyone in between, return the same route set in the same order
C13_Idempotent ==
  (call.fn = "getAllPossibleRoutes" /\ Len(call.results) >= 2) =>
    call.results[1] = call.results[2]

(***************************************************************************)
(* The extracted solution.                                                 *)
(***************************************************************************)
Extracted == pc = "returned" /\ solution.t = "solution"

\* C14: after a successful solve, every edge whose resolved flow is zero
\* has the price null in the extracted network, and the reporting sink adds
\* nothing to the revenue for it
C14_ZeroFlowPriceNull ==
  Extracted =>
    \A x \in 1..Len(graph) :
      (graph[x].f_e.t = "z3num" /\ graph[x].f_e.n = 0) =>
        /\ graph[x].price = None
        /\ ~in_revenue(graph[x])

(***************************************************************************)
(* The parser on its own (ParseSpec).                                      *)
(***************************************************************************)
Parsed == call.fn = "parseGraph" /\ call.returned

\* the edge entries of the file, network after network
entries ==
  Concat([n \in 1..Len(call.data.networks) |->
    [x \in 1..Len(call.data.networks[n].edges) |->
       [name |-> call.data.networks[n].name,
        v1 |-> call.data.networks[n].edges[x].v1,
        v2 |-> call.data.networks[n].edges[x].v2,
        data |-> call.data.networks[n].edges[x].data]]])

\* the edge carries the entry's attributes, and k from the table when the
\* entry has none
Carries(e, entry) ==
  /\ {e.u, e.v} = {entry.v1, entry.v2}
  /\ e.color = entry.data.color
  /\ e.capacity = entry.data.capacity
  /\ e.price = entry.data.price
  /\ e.k = IF entry.data.k.t # "absent" THEN entry.data.k
           ELSE IF entry.name = "Metro"
           THEN Num(call.data.k.Metro[entry.data.color])
           ELSE Num(call.data.k.Bus)

\* C15 as stated: the multigraph lists, in input order, one edge per edge
\* entry with the entry's attributes and k, and the demands are returned
\* unchanged
C15_InputOrder ==
  Parsed =>
    LET es == edges_view(call.graph)
    IN  /\ Len(es) = Len(entries)
        /\ \A x \in 1..Len(es) : Carries(es[x], entries[x])
        /\ call.demands = call.data.demands

\* the number of entries before entry x between the same two nodes
rank(x) ==
  Cardinality({y \in 1..(x - 1) :
                 {entries[y].v1, entries[y].v2} = {entries[x].v1, entries[x].v2}})

\* C15 amended: the multigraph has one edge per edge entry, with the
\* entry's attributes and k, parallel edges kept separate under keys that
\* count the entries of their node pair in input order; its edge list
\* goes node by node, parallel edges in key order, which is not the input
\* order in general; the demands are returned unchanged
C15_OneEdgePerEntry ==
  Parsed =>
    LET es == edges_view(call.graph)
    IN  /\ Len(es) = Len(entries)
        /\ \A x \in 1..Len(entries) :
             \E y \in 1..Len(es) :
               /\ Carries(es[y], entries[x])
               /\ es[y].key = rank(x)
        /\ \A y, z \in 1..Len(es) :
             (y < z /\ es[y].u = es[z].u /\ es[y].v = es[z].v) =>
               es[y].key < es[z].key
        /\ \A y \in 1..(Len(es) - 1) : es[y].u <= es[y + 1].u
        /\ call.demands = call.data.demands

\* parallel edges of both networks, an entry with its own k and entries
\* with k from the table, listed in another order than the file's
C15_Witness ==
  /\ Parsed
  /\ \E y \in 1..Len(call.graph) : call.graph[y].key = 1
  /\ \E x \in 1..Len(entries) : entries[x].data.k.t # "absent"
  /\ \E x \in 1..Len(entries) : entries[x].data.k.t = "absent"
  /\ \E x \in 1..Len(entries) : ~Carries(edges_view(call.graph)[x], entries[x])

(***************************************************************************)
(* The strategies' checks.                                                 *)
(***************************************************************************)
\* the step is a trial of Strategy B that the oracle answered with r
TrialAnswered(r) ==
  /\ pc = "trial"
  /\ Len(checks') = Len(checks) + 1
  /\ checks'[Len(checks')].r = r

\* C16: an oracle call that times out is handled as one that answers
\* unsat: after Strategy A the selector goes on to Strategy B with no
\* model; a Strategy B trial ends the descent as the break of an
\* unsatisfiable trial does, the model, the price under trial and the last
\* satisfiable price left as they were and no exception raised
C16_TimeoutLikeUnsat ==
  [][/\ (pc = "TRY_OPTIMIZE" /\ resultA' = "unknown") =>
          /\ pc' = "TRY_SEARCH"
          /\ model' = NoModel
          /\ ~isSolved'
          /\ raised' = raised
     /\ TrialAnswered("unknown") =>
          /\ pc' = "search_end"
          /\ model' = model
          /\ p_current' = p_current
          /\ last_sat_price' = last_sat_price
          /\ raised' = raised]_vars

\* C17: in a solution of Strategy A every price that was unknown is
\* resolved to a value from P_MIN to P_MAX
C17_PriceInRange ==
  (Solved /\ ByOptimize) =>
    \A x \in 1..Len(graph) :
      EdgeId(graph[x]) \in unknown0 =>
        /\ price_term(graph[x]).name \in DOMAIN model.val
        /\ RLe(Num(P_MIN), price_e(graph[x]))
        /\ RLe(price_e(graph[x]), Num(P_MAX))

\* C18: the constraints of every trial of Strategy B are built on numeric
\* prices only: no price unknown occurs in the constraints the oracle
\* checks in a trial
C18_TrialPricesNumeric ==
  checks # <<>> => PriceNames(oracle.constraints) = {}

\* the step is within Strategy B: from its start to its return
InSearch == pc \in {"TRY_SEARCH", "trial", "search_end"}

\* the edges differ in nothing but the price
SameButPrice(e, f) == [e EXCEPT !.price = f.price] = f

committed == CHOOSE q \in SatPrices : \A r \in SatPrices : q <= r

\* C20: after a cycle that succeeded through Strategy B, once the
\* extractor has run, every edge whose price was unknown holds the
\* committed price as a number
C20_CommittedPriceKept ==
  (Extracted /\ BySearch) =>
    \A x \in 1..Len(graph) :
      EdgeId(graph[x]) \in unknown0 =>
        /\ graph[x].price.t \in {"num", "z3num"}
        /\ REq(graph[x].price, Num(committed))

(***************************************************************************)
(* The network through the solve cycles.                                   *)
(***************************************************************************)
\* the edge's price is a number the input gave it, not one of this solve
FixedPrice(e) == e.price.t = "num" /\ EdgeId(e) \notin unknown0

\* C21: an edge whose price is a fixed number keeps exactly that price
\* through every step of every solve cycle: it is never replaced by null
\* nor by an unknown
C21_FixedPriceKept ==
  [][\A x \in 1..Len(graph) :
       FixedPrice(graph[x]) => graph'[x].price = graph[x].price]_vars

\* C22: every edge entry of every route the enumerator returned, the
\* single entry of a synthetic edge's route included, refers to the
\* network's own record of the edge, so what compute_route_cost reads
\* through the route is what addVarsForSolver wrote onto the network
C22_RouteRefersToNetwork ==
  \A i \in 1..Len(R_ij) : \A j \in 1..Len(R_ij[i]) :
    \A h \in 1..Len(R_ij[i][j]) :
      LET re == R_ij[i][j][h]
      IN  /\ ~re.own
          /\ route_data(graph, re) = graph[EdgeIndex(graph, re.u, re.v, re.key)]

=============================================================================
